---- MODULE Spec2Model ----
(***************************************************************************)
(* A state-machine model of the client-side scripts of the resume site:    *)
(*   - script.js, class ElegantPortfolio: scroll-driven navigation         *)
(*     highlighting, the skills category tabs and the stat counters;       *)
(*   - the two skill-card flip scripts (the breakpoint-gated one and the   *)
(*     ungated one).                                                       *)
(* Each subsystem has its own specification (SpecNav, SpecStats, SpecTabs, *)
(* SpecCards); Spec is their interleaving.  The markup (index.html) is not *)
(* part of the sources: what the scripts read from it (section geometry,   *)
(* link targets, data-* attributes) is an input drawn from small sets.     *)
(***************************************************************************)
EXTENDS Integers, Sequences, FiniteSets, TLC

VARIABLES
  \* ---- navigation highlighting (script.js initNavigation) ----
  layout,          \* section id -> [top, height]: offsetTop / offsetHeight
  navLinks,        \* the hrefs of the .nav-link elements (one link per href)
  navActive,       \* the links that carry the class 'active'
  currentSection,  \* this.currentSection
  scrollY,         \* window.scrollY
  navInThrottle,   \* inThrottle of throttle(updateActiveNav, 100)
  lastNavPos,      \* history: {scrollPos of the last updateActiveNav run}, or {}
  \* ---- stat counter (script.js animateStats), one .stat-number element ----
  statAttr,        \* its data-target attribute, a string
  statObserved,    \* statsObserver still observes the element
  statStarted,     \* animateNumber has been called for the element
  statTarget,      \* const target (a number value, possibly NaN)
  statCurrent,     \* let current, in units of 1/Frames (possibly NaN)
  statText,        \* element.textContent, a string
  statFrame,       \* a requestAnimationFrame(updateNumber) callback is pending
  statInView,      \* the element intersects the viewport
  statStarts,      \* history: number of animateNumber calls
  statEntries,     \* history: number of times the element entered the viewport
  \* ---- skills category tabs (script.js initSkillsTabs) ----
  tabActive,       \* the .category-tab elements that carry 'active'
  groupActive,     \* the .skill-group elements that carry 'active'
  tabTimers,       \* pending timers, in the order they were set:
                   \* [kind, el, delay, rem], a group's activation or a card's
                   \* reveal, set with delay ticks and due rem ticks from now
                   \* (rem < 0: overdue)
  cardsShown,      \* the skill cards that have been given opacity 1
  lastTab,         \* history: {the tab clicked last}, or {}
  \* ---- skill-card flip (the two flip scripts), one page ----
  cardVariant,     \* which flip script the page loads: "gated" or "ungated"
  innerWidth,      \* window.innerWidth
  flipped,         \* the .skill-card elements that carry 'flipped'
  resizePending,   \* the viewport changed and its resize event is not yet dispatched
  clickHist,       \* history: the clicks since the last viewport change or
                   \* resize event (the last two), each with flipped before it
  clearedWide,     \* history: a resize was handled above the breakpoint and the
                   \* width has stayed above it since
  \* ---- mobile menu (script.js setupEventListeners, handleResize) ----
  hasToggle,       \* document.querySelector('.nav-toggle') finds an element
  hasMenu,         \* document.querySelector('.nav-menu') finds an element
  toggleActive,    \* the toggle carries 'active'
  menuActive,      \* the menu carries 'active'
  menuTimer,       \* the debounced handleResize has a 250 ms timer pending
  menuTimerId,     \* which timer: every resize event clears it and sets another
  menuStart,       \* history: [toggle, menu], the 'active' marks in the markup
  menuHist,        \* history: [op, wasOpen], the last menu step and whether the
                   \* menu was active before it
  \* ---- throttle(func, limit) (script.js throttle), one wrapped handler ----
  thrLimit,        \* limit, in clock ticks
  thrClock,        \* the time
  thrInThrottle,   \* let inThrottle
  thrTimers,       \* due times of the pending setTimeout(() => inThrottle = false)
  thrCalls,        \* history: number of calls of the wrapper
  thrFirstCall,    \* history: {time of the first call}, or {}
  thrRuns,         \* history: the times func ran, oldest first
  \* ---- debounce(func, wait) (script.js debounce), one wrapped handler ----
  debWait,         \* wait, in clock ticks
  debClock,        \* the time
  debTimeout,      \* let timeout: the handle of the last setTimeout, 0 = none
  debTimers,       \* pending timeouts: [id, due, args]
  debCalls,        \* history: number of calls; call n passes the arguments n
  debLastCall,     \* history: {time of the last call}, or {}
  debBurst,        \* history: every call so far came < wait after the previous
  debRuns,         \* history: the runs of func, [at, args], oldest first
  \* ---- ParticleBackground (script.js) ----
  ptSearch,        \* window.location.search, a sequence of characters
  ptHasThree,      \* typeof THREE !== 'undefined'
  ptViewport,      \* [w, h]: window.innerWidth, window.innerHeight
  ptLoaded,        \* DOMContentLoaded has fired
  ptBuiltAt,       \* history: {innerWidth when the constructor ran}, or {}
  ptScene,         \* scene, camera and renderer are created (else null)
  ptSize,          \* {size given to renderer.setSize}, or {}
  ptParticles,     \* the position attribute: <<x, y, z>> per particle;
                   \* <<>> while this.particles is null
  ptRotation,      \* particles.rotation [x, y], in 1/10000
  ptMouse,         \* this.mouse [x, y]
  ptFramesPending, \* requestAnimationFrame callbacks not yet run
  ptFrames,        \* history: number of frames animate has drawn
  \* ---- handleScroll (script.js): header background, scroll indicator ----
  hdrHasNav,       \* document.querySelector('.nav-bar') is not null
  hdrHasIndicator, \* document.querySelector('.scroll-indicator') is not null
  hdrScrollY,      \* window.scrollY
  hdrInThrottle,   \* inThrottle of the throttled scroll listener
  hdrAlpha,        \* {alpha of nav.style.backgroundColor, in 1/1000}, or {}
  hdrIndicator,    \* {scrollIndicator.style.opacity}, or {}
  hdrReadY,        \* history: {scrollY read by the last handleScroll}, or {}
  \* ---- initScrollObserver (script.js) ----
  obsObserved,     \* the elements the scroll observer watches
  obsInView,       \* the elements that intersect the viewport
  obsAnimateIn,    \* the elements with class 'animate-in'
  obsReactions,    \* history: per element, runs of the became-visible branch
  obsAnimations    \* history: per element, section animations started

navVars == <<layout, navLinks, navActive, currentSection, scrollY,
             navInThrottle, lastNavPos>>

statVars == <<statAttr, statObserved, statStarted, statTarget, statCurrent,
              statText, statFrame, statInView, statStarts, statEntries>>

tabVars == <<tabActive, groupActive, tabTimers, cardsShown, lastTab>>

cardVars == <<cardVariant, innerWidth, flipped, resizePending, clickHist,
              clearedWide>>

menuVars == <<hasToggle, hasMenu, toggleActive, menuActive, menuTimer,
              menuTimerId, menuStart, menuHist>>

thrVars == <<thrLimit, thrClock, thrInThrottle, thrTimers, thrCalls,
             thrFirstCall, thrRuns>>

debVars == <<debWait, debClock, debTimeout, debTimers, debCalls,
             debLastCall, debBurst, debRuns>>

ptVars == <<ptSearch, ptHasThree, ptViewport, ptLoaded, ptBuiltAt, ptScene,
            ptSize, ptParticles, ptRotation, ptMouse, ptFramesPending,
            ptFrames>>

hdrVars == <<hdrHasNav, hdrHasIndicator, hdrScrollY, hdrInThrottle,
             hdrAlpha, hdrIndicator, hdrReadY>>

obsVars == <<obsObserved, obsInView, obsAnimateIn, obsReactions,
             obsAnimations>>

\* The subsystems after the skill cards.
moreVars == <<menuVars, thrVars, debVars, ptVars, hdrVars, obsVars>>

\* What a menu step leaves alone, the skill-card variables aside.
menuRest == <<navVars, statVars, tabVars, thrVars, debVars, ptVars, hdrVars, obsVars>>

\* What a throttle step leaves alone.
thrRest == <<navVars, statVars, tabVars, cardVars, menuVars, debVars, ptVars, hdrVars, obsVars>>

\* What a debounce step leaves alone.
debRest == <<navVars, statVars, tabVars, cardVars, menuVars, thrVars, ptVars, hdrVars, obsVars>>

\* What a particle step leaves alone.
ptRest == <<navVars, statVars, tabVars, cardVars, menuVars, thrVars,
             debVars, hdrVars, obsVars>>

\* What a header step leaves alone.
hdrRest == <<navVars, statVars, tabVars, cardVars, menuVars, thrVars,
              debVars, ptVars, obsVars>>

\* What a scroll-observer step leaves alone, the tab variables aside.
obsRest == <<navVars, statVars, cardVars, menuVars, thrVars,
              debVars, ptVars, hdrVars>>

vars == <<navVars, statVars, tabVars, cardVars, moreVars>>

----------------------------------------------------------------------------
(***************************************************************************)
(* Navigation highlighting: script.js, initNavigation / updateActiveNav.   *)
(***************************************************************************)

\* document.querySelectorAll('.section[id]'), in document order.
SectionOrder == <<"about", "experience", "skills">>

SectionIds == {SectionOrder[i] : i \in 1..Len(SectionOrder)}

\* Targets a .nav-link may point at: the sections, and one id ("contact")
\* that is no watched section.
LinkTargets == SectionIds \cup {"contact"}

\* const scrollPos = window.scrollY + 100
NavOffset == 100

\* Geometry the layouts are drawn from (pixels).
SectionTops == {100, 200, 300}

SectionHeights == {100, 200}

\* The layout of the spec's example: heights 800/600/900 stacked from y = 0.
ExampleLayout ==
  [s \in SectionIds |->
     CASE s = "about"      -> [top |-> 0,    height |-> 800]
       [] s = "experience" -> [top |-> 800,  height |-> 600]
       [] s = "skills"     -> [top |-> 1400, height |-> 900]]

Layouts ==
  [SectionIds -> [top : SectionTops, height : SectionHeights]]
    \cup {ExampleLayout}

\* Scroll offsets delivered by scroll events (750 + 100 = 850, the example).
ScrollOffsets == {0, 100, 200, 300, 400, 750}

\* The range test with a strict lower bound: an off-by-one that leaves the
\* first pixel of every section outside it.
InSectionStrict(lay, s, pos) ==
  pos > lay[s].top /\ pos < lay[s].top + lay[s].height

\* scrollPos >= sectionTop && scrollPos < sectionTop + sectionHeight
InSection(lay, s, pos) ==
  pos >= lay[s].top /\ pos < lay[s].top + lay[s].height

\* The inner navLinks.forEach without its classList.remove: what a handler
\* that forgot to clear the other links would do.
MarkLinksNoRemove(st, links, sectionId) ==
  [active  |-> st.active \cup {l \in links : l = sectionId},
   current |-> IF sectionId \in links THEN sectionId ELSE st.current]

\* navLinks.forEach(link => { link.classList.remove('active');
\*   if (link.getAttribute('href') === `#${sectionId}`) {
\*     link.classList.add('active'); this.currentSection = sectionId; } })
MarkLinks(st, links, sectionId) ==
  [active  |-> {l \in links : l = sectionId},
   current |-> IF sectionId \in links THEN sectionId ELSE st.current]

\* sections.forEach(section => { if (in range) navLinks.forEach(...) }),
\* from section number i on.
RECURSIVE NavFrom(_, _, _, _, _)
NavFrom(i, st, links, lay, pos) ==
  IF i > Len(SectionOrder) THEN st
  ELSE NavFrom(i + 1,
               IF InSection(lay, SectionOrder[i], pos)
                 THEN MarkLinks(st, links, SectionOrder[i])
                 ELSE st,
               links, lay, pos)

\* updateActiveNav: the state of the links after one run at scroll offset y.
UpdateActiveNav(st, links, lay, y) ==
  NavFrom(1, st, links, lay, y + NavOffset)

\* A scroll event reaches the throttled listener while its window is closed:
\* updateActiveNav runs, and the 100 ms window opens.
NavScroll(y) ==
  /\ ~navInThrottle
  /\ scrollY' = y
  /\ LET st == UpdateActiveNav([active |-> navActive, current |-> currentSection],
                               navLinks, layout, y)
     IN /\ navActive' = st.active
        /\ currentSection' = st.current
  /\ navInThrottle' = TRUE
  /\ lastNavPos' = {y + NavOffset}
  /\ UNCHANGED <<layout, navLinks, statVars, tabVars, cardVars, moreVars>>

\* A scroll event inside the throttle window: the call is dropped.
NavScrollDropped(y) ==
  /\ navInThrottle
  /\ scrollY' = y
  /\ UNCHANGED <<layout, navLinks, navActive, currentSection, navInThrottle,
                 lastNavPos, statVars, tabVars, cardVars, moreVars>>

\* setTimeout(() => inThrottle = false, limit)
NavThrottleExpire ==
  /\ navInThrottle
  /\ navInThrottle' = FALSE
  /\ UNCHANGED <<layout, navLinks, navActive, currentSection, scrollY, lastNavPos,
                 statVars, tabVars, cardVars, moreVars>>

NavNext ==
  \/ \E y \in ScrollOffsets : NavScroll(y)
  \/ \E y \in ScrollOffsets : NavScrollDropped(y)
  \/ NavThrottleExpire

----------------------------------------------------------------------------
(***************************************************************************)
(* Stat counters: script.js, animateStats / animateNumber / updateNumber.  *)
(* Strings are sequences of one-character strings.  A JavaScript number is *)
(* a record [nan, val]: NaN, or the integer val.                           *)
(***************************************************************************)

NaN == [nan |-> TRUE, val |-> 0]

Num(v) == [nan |-> FALSE, val |-> v]

\* const duration = 2000
Duration == 2000

\* the 16 of  target / (duration / 16)
FrameMs == 16

\* duration / 16 = 125 exactly: the number of steps that add up to target.
Frames == Duration \div FrameMs

\* Characters the data-target attribute is drawn from. They leave out '+' and
\* the 0x prefix, which parseInt also accepts.
AttrChars == {"0", "1", "5", "-", " ", "a"}

\* Longest attribute string.
MaxAttrLen == 3

RECURSIVE StringsUpTo(_)
StringsUpTo(n) ==
  IF n = 0 THEN {<<>>}
  ELSE LET shorter == StringsUpTo(n - 1)
       IN shorter \cup {Append(t, c) : t \in shorter, c \in AttrChars}

AttrStrings == StringsUpTo(MaxAttrLen)

Digits == <<"0", "1", "2", "3", "4", "5", "6", "7", "8", "9">>

IsDigit(c) == \E d \in 1..Len(Digits) : Digits[d] = c

DigitValue(c) == (CHOOSE d \in 1..Len(Digits) : Digits[d] = c) - 1

\* parseInt step 2: strip leading white space.
RECURSIVE TrimLeft(_)
TrimLeft(s) ==
  IF s # <<>> /\ Head(s) = " " THEN TrimLeft(Tail(s)) ELSE s

\* The value of the longest prefix of s made of digits, after acc.
RECURSIVE ReadDigits(_, _)
ReadDigits(s, acc) ==
  IF s = <<>> \/ ~IsDigit(Head(s)) THEN acc
  ELSE ReadDigits(Tail(s), acc * 10 + DigitValue(Head(s)))

\* parseInt(string) with no radix, on strings without a 0x prefix: white
\* space, an optional sign, then digits up to the first non-digit; NaN when
\* there is no digit.
ParseInt(s) ==
  LET t    == TrimLeft(s)
      neg  == t # <<>> /\ Head(t) = "-"
      body == IF t # <<>> /\ Head(t) \in {"-", "+"} THEN Tail(t) ELSE t
  IN IF body = <<>> \/ ~IsDigit(Head(body)) THEN NaN
     ELSE Num(IF neg THEN 0 - ReadDigits(body, 0) ELSE ReadDigits(body, 0))

RECURSIVE NatToStr(_)
NatToStr(n) ==
  IF n < 10 THEN <<Digits[n + 1]>>
  ELSE Append(NatToStr(n \div 10), Digits[(n % 10) + 1])

\* String(x) as textContent = x renders it.
NumToStr(x) ==
  IF x.nan THEN <<"N", "a", "N">>
  ELSE IF x.val < 0 THEN <<"-">> \o NatToStr(0 - x.val)
  ELSE NatToStr(x.val)

\* target / Frames is a binary fraction only when Frames divides target;
\* otherwise step, and every sum of steps, is rounded.
Inexact(target) == ~target.nan /\ target.val % Frames # 0

\* current += step, with current kept in units of 1/Frames.
AddStep(cur, target) ==
  IF cur.nan \/ target.nan THEN NaN ELSE Num(cur.val + target.val)

\* current >= target. When the exact sum equals target and step is rounded,
\* the rounded sum may fall just below it (below = TRUE).
Reached(cur, target, below) ==
  IF cur.nan \/ target.nan THEN FALSE
  ELSE IF cur.val = Frames * target.val
         THEN ~(below /\ Inexact(target))
         ELSE cur.val > Frames * target.val

\* Math.floor(current). When the exact sum is an integer and step is rounded,
\* the rounded sum may fall just below it.
Floor(cur, target, below) ==
  IF cur.nan THEN NaN
  ELSE IF cur.val % Frames = 0 /\ below /\ Inexact(target)
         THEN Num((cur.val \div Frames) - 1)
         ELSE Num(cur.val \div Frames)

\* updateNumber with the final write of Math.floor(current) in place of
\* target: a count-up that forgot to clamp its last frame.
UpdateNumberNoClamp(cur, target, below) ==
  LET c == AddStep(cur, target)
  IN IF Reached(c, target, below)
       THEN [current |-> c, text |-> NumToStr(Floor(c, target, below)),
             frame |-> FALSE]
       ELSE [current |-> c, text |-> NumToStr(Floor(c, target, below)),
             frame |-> TRUE]

\* updateNumber: current += step; if (current >= target) textContent = target
\* else { textContent = Math.floor(current); requestAnimationFrame(...) }
UpdateNumber(cur, target, below) ==
  LET c == AddStep(cur, target)
  IN IF Reached(c, target, below)
       THEN [current |-> c, text |-> NumToStr(target), frame |-> FALSE]
       ELSE [current |-> c, text |-> NumToStr(Floor(c, target, below)),
             frame |-> TRUE]

\* Most entries of the stat element into the viewport.
MaxEntries == 2

\* The observer callback without its unobserve.
UnobserveForgotten(observed) == observed

\* statsObserver.unobserve(entry.target)
Unobserve(observed) == FALSE

\* The element enters the viewport.  If it is observed, the observer reports
\* it intersecting: animateNumber(entry.target) (which runs updateNumber
\* once) and statsObserver.unobserve(entry.target).
StatIntersect ==
  /\ ~statInView
  /\ statEntries < MaxEntries
  /\ statInView' = TRUE
  /\ statEntries' = statEntries + 1
  /\ IF statObserved
       THEN /\ \E below \in BOOLEAN :
                 LET target == ParseInt(statAttr)
                     r == UpdateNumber(Num(0), target, below)
                 IN /\ statTarget' = target
                    /\ statCurrent' = r.current
                    /\ statText' = r.text
                    /\ statFrame' = r.frame
            /\ statStarted' = TRUE
            /\ statStarts' = statStarts + 1
            /\ statObserved' = Unobserve(statObserved)
       ELSE UNCHANGED <<statTarget, statCurrent, statText, statFrame,
                        statStarted, statStarts, statObserved>>
  /\ UNCHANGED <<statAttr, navVars, tabVars, cardVars, moreVars>>

\* The element leaves the viewport; the callback does nothing for it.
StatLeave ==
  /\ statInView
  /\ statInView' = FALSE
  /\ UNCHANGED <<statAttr, statObserved, statStarted, statTarget, statCurrent,
                 statText, statFrame, statStarts, statEntries, navVars,
                 tabVars, cardVars, moreVars>>

\* A pending animation frame runs updateNumber.
StatAnimationFrame ==
  /\ statFrame
  /\ \E below \in BOOLEAN :
       LET r == UpdateNumber(statCurrent, statTarget, below)
       IN /\ statCurrent' = r.current
          /\ statText' = r.text
          /\ statFrame' = r.frame
  /\ UNCHANGED <<statAttr, statObserved, statStarted, statTarget, statInView,
                 statStarts, statEntries, navVars, tabVars, cardVars,
                 moreVars>>

StatNext == StatIntersect \/ StatLeave \/ StatAnimationFrame

----------------------------------------------------------------------------
(***************************************************************************)
(* Skills category tabs: script.js, initSkillsTabs.                        *)
(***************************************************************************)

\* The .category-tab elements, each named by its data-category. "tools" is a
\* tab with no skill group.
Tabs == {"data", "cloud", "tools"}

\* document.querySelectorAll('.skill-group'), in document order.
GroupOrder == <<"g1", "g2", "g3">>

SkillGroups == {GroupOrder[i] : i \in 1..Len(GroupOrder)}

\* group.getAttribute('data-category')
GroupCategory(g) ==
  CASE g = "g1" -> "data"
    [] g = "g2" -> "cloud"
    [] g = "g3" -> "cloud"

\* group.querySelectorAll('.skill-card'), in document order: a group of two
\* cards, a group of one, a group of none.
GroupCards(g) ==
  CASE g = "g1" -> <<"g1.card1", "g1.card2">>
    [] g = "g2" -> <<"g2.card1">>
    [] g = "g3" -> <<>>

\* Most group timers pending at once.
MaxTimers == 3

\* 150 ms, in clock ticks.
DelayTicks == 3

\* Most ticks a timer fires after its due time.
MaxLate == 1

IsCategory(g, targetCategory) == GroupCategory(g) = targetCategory

\* The groups a click on targetCategory schedules a timer for, in forEach order.
RECURSIVE GroupsFrom(_, _)
GroupsFrom(i, targetCategory) ==
  IF i > Len(GroupOrder) THEN <<>>
  ELSE (IF IsCategory(GroupOrder[i], targetCategory)
          THEN <<GroupOrder[i]>> ELSE <<>>)
       \o GroupsFrom(i + 1, targetCategory)

\* setTimeout(() => {...}, 150) for each of the groups
GroupTimers(groups) ==
  [i \in 1..Len(groups) |->
     [kind |-> "group", el |-> groups[i],
      delay |-> DelayTicks, rem |-> DelayTicks]]

\* animateSkillCards: setTimeout(..., index * 150) for each card
AnimateSkillCards(skillCards) ==
  [i \in 1..Len(skillCards) |->
     [kind |-> "card", el |-> skillCards[i],
      delay |-> (i - 1) * DelayTicks, rem |-> (i - 1) * DelayTicks]]

\* The pending group timers.
GroupTimersPending == SelectSeq(tabTimers, LAMBDA t : t.kind = "group")

\* The timers that are due, or overdue.
DueTimers == {i \in 1..Len(tabTimers) : tabTimers[i].rem <= 0}

\* Timer i may fire next: it is due, and no timer set before it with the
\* same or a shorter delay is still pending.  Between timers of other
\* delays setTimeout fixes no order.
NextTimer(i) ==
  /\ i \in DueTimers
  /\ \A j \in 1..(i - 1) : tabTimers[j].delay > tabTimers[i].delay

\* The sequence without its i-th element.
RemoveAt(seq, i) == SubSeq(seq, 1, i - 1) \o SubSeq(seq, i + 1, Len(seq))

\* Click on a tab: every tab loses 'active' and the clicked one gets it;
\* every group loses 'active', and each group of the tab's category gets a
\* 150 ms timer that will add it back.
TabClick(tab) ==
  /\ Len(GroupTimersPending) + Len(GroupsFrom(1, tab)) <= MaxTimers
  /\ tabActive' = {tab}
  /\ groupActive' = {}
  /\ tabTimers' = tabTimers \o GroupTimers(GroupsFrom(1, tab))
  /\ lastTab' = {tab}
  /\ UNCHANGED <<cardsShown, navVars, statVars, cardVars, moreVars>>

\* A group's 150 ms timer fires: group.classList.add('active') and
\* animateSkillCards(group), which sets a timer for each card of the group.
TabTimerFire ==
  \E i \in 1..Len(tabTimers) :
    /\ NextTimer(i)
    /\ tabTimers[i].kind = "group"
    /\ groupActive' = groupActive \cup {tabTimers[i].el}
    /\ tabTimers' = RemoveAt(tabTimers, i)
                      \o AnimateSkillCards(GroupCards(tabTimers[i].el))
    /\ UNCHANGED <<tabActive, cardsShown, lastTab, navVars, statVars,
                   cardVars, moreVars>>

\* A card's animateSkillCards timer fires: the card gets opacity 1 and its
\* transform reset.
TabRevealFire ==
  \E i \in 1..Len(tabTimers) :
    /\ NextTimer(i)
    /\ tabTimers[i].kind = "card"
    /\ cardsShown' = cardsShown \cup {tabTimers[i].el}
    /\ tabTimers' = RemoveAt(tabTimers, i)
    /\ UNCHANGED <<tabActive, groupActive, lastTab, navVars, statVars,
                   cardVars, moreVars>>

\* Time passes; a timer fires at its due time or later.
TabTick ==
  /\ tabTimers # <<>>
  /\ \A i \in 1..Len(tabTimers) : tabTimers[i].rem > -MaxLate
  /\ tabTimers' = [i \in 1..Len(tabTimers) |->
                     [tabTimers[i] EXCEPT !.rem = @ - 1]]
  /\ UNCHANGED <<tabActive, groupActive, cardsShown, lastTab, navVars,
                 statVars, cardVars, moreVars>>

TabNext ==
  \/ \E tab \in Tabs : TabClick(tab)
  \/ TabTimerFire
  \/ TabRevealFire
  \/ TabTick

----------------------------------------------------------------------------
(***************************************************************************)
(* Skill-card flip: the breakpoint-gated script and the ungated script.    *)
(***************************************************************************)

\* document.querySelectorAll(".skill-card")
Cards == {"c1", "c2"}

\* The 768 of  window.innerWidth <= 768  and  window.innerWidth > 768
Breakpoint == 768

\* Viewport widths, on both sides of the breakpoint and on it.
Widths == {500, 768, 769, 1024}

Variants == {"gated", "ungated"}

\* classList.add in place of classList.toggle.
ToggleAddsOnly(set, card) == set \cup {card}

\* card.classList.toggle("flipped")
Toggle(set, card) ==
  IF card \in set THEN set \ {card} ELSE set \cup {card}

\* The gated click handler without its width test.
ClickFlippedNoGate(variant, width, set, card) == Toggle(set, card)

\* The click handler of a card: the gated script toggles only when
\* window.innerWidth <= 768, the ungated script always.
ClickFlipped(variant, width, set, card) ==
  IF variant = "gated" /\ ~(width <= Breakpoint) THEN set
  ELSE Toggle(set, card)

\* A resize handler that removes nothing.
ResizeFlippedKeeps(width, set) == set

\* The gated script's resize handler: above the breakpoint every card loses
\* 'flipped'.
ResizeFlipped(width, set) ==
  IF width > Breakpoint THEN {} ELSE set

\* The last two entries of a sequence.
LastTwo(seq) ==
  IF Len(seq) <= 2 THEN seq ELSE SubSeq(seq, Len(seq) - 1, Len(seq))

\* Click on a card.
CardClick(card) ==
  /\ flipped' = ClickFlipped(cardVariant, innerWidth, flipped, card)
  /\ clickHist' = LastTwo(Append(clickHist, [card |-> card, before |-> flipped]))
  /\ UNCHANGED <<cardVariant, innerWidth, resizePending, clearedWide,
                 navVars, statVars, tabVars, moreVars>>

\* The viewport is resized to width w. Where a resize listener exists (the
\* gated script) its event is dispatched later; clicks may come first.
CardViewportChange(w) ==
  /\ w # innerWidth
  /\ innerWidth' = w
  /\ resizePending' = (cardVariant = "gated")
  /\ clickHist' = <<>>
  /\ clearedWide' = (clearedWide /\ w > Breakpoint)
  /\ UNCHANGED <<cardVariant, flipped, navVars, statVars, tabVars, moreVars>>

\* The resize event reaches the gated script's listener.
CardResize ==
  /\ cardVariant = "gated"
  /\ resizePending
  /\ flipped' = ResizeFlipped(innerWidth, flipped)
  /\ resizePending' = FALSE
  /\ clickHist' = <<>>
  /\ clearedWide' = (clearedWide \/ innerWidth > Breakpoint)
  /\ UNCHANGED <<cardVariant, innerWidth, navVars, statVars, tabVars, moreVars>>

CardNext ==
  \/ \E card \in Cards : CardClick(card)
  \/ \E w \in Widths : CardViewportChange(w)
  \/ CardResize

----------------------------------------------------------------------------
(***************************************************************************)
(* Mobile menu: script.js, setupEventListeners (toggle click, nav-link     *)
(* click, debounced resize listener) and handleResize.                     *)
(* The state of the two elements is a record [toggle, menu] of their       *)
(* 'active' marks; an element that does not exist carries no mark.         *)
(***************************************************************************)

\* The toggle click listener changing the toggle only.
ToggleClickToggleOnly(st) ==
  [toggle |-> ~st.toggle, menu |-> st.menu]

\* navToggle.classList.toggle('active'); navMenu.classList.toggle('active')
ToggleClick(st) ==
  [toggle |-> ~st.toggle, menu |-> ~st.menu]

\* navToggle?.classList.remove('active'); navMenu?.classList.remove('active')
RemoveActive(st) ==
  [toggle |-> FALSE, menu |-> FALSE]

\* The nav-link click listener.
NavLinkClick(st) == RemoveActive(st)

\* handleResize testing the width the wrong way round.
HandleResizeBelow(width, st) ==
  IF width <= Breakpoint THEN RemoveActive(st) ELSE st

\* handleResize: if (window.innerWidth > 768) remove 'active' from both.
HandleResize(width, st) ==
  IF width > Breakpoint THEN RemoveActive(st) ELSE st

MenuState == [toggle |-> toggleActive, menu |-> menuActive]

\* The timers of the debounced resize listener: the one pending and the one
\* a resize event replaces it with.
TimerIds == {0, 1}

\* timeout = setTimeout(later, wait): another timer than the one cleared
NextTimerId(id) == 1 - id

\* The mobile menu is open.
MenuOpen == menuActive

\* Click on the toggle; the listener is registered only if (navToggle && navMenu).
MenuToggleClick ==
  /\ hasToggle /\ hasMenu
  /\ toggleActive' = ToggleClick(MenuState).toggle
  /\ menuActive' = ToggleClick(MenuState).menu
  /\ menuHist' = [op |-> "toggle", wasOpen |-> MenuOpen]
  /\ UNCHANGED <<hasToggle, hasMenu, menuTimer, menuTimerId, menuStart,
                 cardVars, menuRest>>

\* Click on a .nav-link: the listener of lines 65-70.
MenuNavLinkClick ==
  /\ navLinks # {}
  /\ toggleActive' = NavLinkClick(MenuState).toggle
  /\ menuActive' = NavLinkClick(MenuState).menu
  /\ menuHist' = [op |-> "link", wasOpen |-> MenuOpen]
  /\ UNCHANGED <<hasToggle, hasMenu, menuTimer, menuTimerId, menuStart,
                 cardVars, menuRest>>

\* The viewport is resized to width w and the resize event reaches the
\* debounced listener: clearTimeout(timeout); timeout = setTimeout(later, 250).
\* (The flip script's own resize listener is dispatched in CardResize.)
MenuResize(w) ==
  /\ innerWidth' = w
  /\ menuTimer' = TRUE
  /\ menuTimerId' = NextTimerId(menuTimerId)
  /\ menuHist' = [op |-> "resize", wasOpen |-> MenuOpen]
  /\ resizePending' = (IF w # innerWidth THEN cardVariant = "gated" ELSE resizePending)
  /\ clickHist' = <<>>
  /\ clearedWide' = (clearedWide /\ w > Breakpoint)
  /\ UNCHANGED <<hasToggle, hasMenu, toggleActive, menuActive, menuStart,
                 cardVariant, flipped, menuRest>>

\* The 250 ms timer set last fires: later() runs handleResize.
MenuTimerFire(id) ==
  /\ menuTimer
  /\ menuTimerId = id
  /\ toggleActive' = HandleResize(innerWidth, MenuState).toggle
  /\ menuActive' = HandleResize(innerWidth, MenuState).menu
  /\ menuTimer' = FALSE
  /\ menuHist' = [op |-> "handleResize", wasOpen |-> MenuOpen]
  /\ UNCHANGED <<hasToggle, hasMenu, menuTimerId, menuStart,
                 cardVars, menuRest>>

MenuNext ==
  \/ MenuToggleClick
  \/ MenuNavLinkClick
  \/ \E w \in Widths : MenuResize(w)
  \/ \E id \in TimerIds : MenuTimerFire(id)

----------------------------------------------------------------------------
(***************************************************************************)
(* throttle(func, limit): script.js, throttle.  Time is a clock of ticks;  *)
(* a timer fires at its due time or later.                                 *)
(***************************************************************************)

\* The limits a handler is wrapped with, in ticks.
ThrottleLimits == {1, 2, 3}

\* Last tick of the clock.
MaxTime == 5

\* Most calls of a wrapped handler.
MaxCalls == 4

\* The wrapper without its  inThrottle = true.
ThrottledNoWindow(inThrottle) ==
  [run |-> ~inThrottle, inThrottle |-> inThrottle, timer |-> ~inThrottle]

\* if (!inThrottle) { func.apply(context, args); inThrottle = true;
\*                    setTimeout(() => inThrottle = false, limit); }
Throttled(inThrottle) ==
  IF ~inThrottle
    THEN [run |-> TRUE, inThrottle |-> TRUE, timer |-> TRUE]
    ELSE [run |-> FALSE, inThrottle |-> inThrottle, timer |-> FALSE]

\* A call of the wrapper.
ThrCall ==
  /\ thrCalls < MaxCalls
  /\ LET r == Throttled(thrInThrottle)
     IN /\ thrInThrottle' = r.inThrottle
        /\ thrRuns' = IF r.run THEN Append(thrRuns, thrClock) ELSE thrRuns
        /\ thrTimers' = IF r.timer THEN thrTimers \cup {thrClock + thrLimit}
                                   ELSE thrTimers
  /\ thrCalls' = thrCalls + 1
  /\ thrFirstCall' = IF thrCalls = 0 THEN {thrClock} ELSE thrFirstCall
  /\ UNCHANGED <<thrLimit, thrClock, thrRest>>

\* A timer that is due fires: inThrottle = false.
ThrTimerFire(due) ==
  /\ due \in thrTimers
  /\ thrClock >= due
  /\ thrInThrottle' = FALSE
  /\ thrTimers' = thrTimers \ {due}
  /\ UNCHANGED <<thrLimit, thrClock, thrCalls, thrFirstCall, thrRuns, thrRest>>

\* Time passes.
ThrTick ==
  /\ thrClock < MaxTime
  /\ thrClock' = thrClock + 1
  /\ UNCHANGED <<thrLimit, thrInThrottle, thrTimers, thrCalls, thrFirstCall,
                 thrRuns, thrRest>>

ThrNext ==
  \/ ThrCall
  \/ \E due \in thrTimers : ThrTimerFire(due)
  \/ ThrTick

----------------------------------------------------------------------------
(***************************************************************************)
(* debounce(func, wait): script.js, debounce.  A timeout fires at its due  *)
(* time or later.                                                          *)
(***************************************************************************)

\* The waits a handler is wrapped with, in ticks.
DebounceWaits == {2, 3}

\* clearTimeout(handle)
ClearTimeout(timers, handle) == {t \in timers : t.id # handle}

\* The wrapper without its clearTimeout.
RearmNoClear(timers, handle, new) == timers \cup {new}

\* clearTimeout(timeout); timeout = setTimeout(later, wait);
Rearm(timers, handle, new) == ClearTimeout(timers, handle) \cup {new}

\* A call of the wrapper, with the arguments debCalls + 1.
DebCall ==
  /\ debCalls < MaxCalls
  /\ debClock <= MaxTime
  /\ LET n == debCalls + 1
     IN /\ debTimers' = Rearm(debTimers, debTimeout,
                              [id |-> n, due |-> debClock + debWait, args |-> n])
        /\ debTimeout' = n
        /\ debCalls' = n
  /\ debBurst' = (debBurst /\ \A at \in debLastCall : debClock - at < debWait)
  /\ debLastCall' = {debClock}
  /\ UNCHANGED <<debWait, debClock, debRuns, debRest>>

\* later: clearTimeout(timeout); func(...args);
DebTimerFire(t) ==
  /\ t \in debTimers
  /\ debClock >= t.due
  /\ debTimers' = ClearTimeout(debTimers \ {t}, debTimeout)
  /\ debRuns' = Append(debRuns, [at |-> debClock, args |-> t.args])
  /\ UNCHANGED <<debWait, debClock, debTimeout, debCalls, debLastCall,
                 debBurst, debRest>>

\* Time passes: up to MaxTime, and on until no timeout is waiting for it.
DebTick ==
  /\ debClock < MaxTime \/ \E t \in debTimers : t.due > debClock
  /\ debClock' = debClock + 1
  /\ UNCHANGED <<debWait, debTimeout, debTimers, debCalls, debLastCall,
                 debBurst, debRuns, debRest>>

DebNext ==
  \/ DebCall
  \/ \E t \in debTimers : DebTimerFire(t)
  \/ DebTick

----------------------------------------------------------------------------
(***************************************************************************)
(* ParticleBackground: script.js, class ParticleBackground and the         *)
(* DOMContentLoaded handler.                                               *)
(***************************************************************************)

\* 'particles'
ParticlesFlag == <<"p", "a", "r", "t", "i", "c", "l", "e", "s">>

\* The query strings: none, ?particles, ?particle, ?x=1&particles, ?Particles.
Searches ==
  { <<>>,
    <<"?">> \o ParticlesFlag,
    <<"?", "p", "a", "r", "t", "i", "c", "l", "e">>,
    <<"?", "x", "=", "1", "&">> \o ParticlesFlag,
    <<"?", "P", "a", "r", "t", "i", "c", "l", "e", "s">> }

\* The viewports.
Viewports ==
  { [w |-> 768, h |-> 1024], [w |-> 769, h |-> 600], [w |-> 1024, h |-> 768] }

\* if (window.innerWidth > 768)
DesktopWidth == 768

\* const particleCount (100 in the source)
NumParticles == 2

\* Most frames drawn.
MaxFrames == 3

\* Math.random(), in tenths: 0.0 and 0.9.
RandomValues == {0, 9}

\* Where the pointer is, in half viewports: clientX = k * innerWidth / 2.
MousePoints == {0, 2}

\* String.prototype.includes
Includes(s, sub) ==
  \/ sub = <<>>
  \/ \E i \in 1..(Len(s) - Len(sub) + 1) : SubSeq(s, i, i + Len(sub) - 1) = sub

\* The guards of constructor and init without the test of THREE.
ShouldInitNoLibraryCheck(width, three) == width > DesktopWidth

\* constructor: if (window.innerWidth > 768) this.init();
\* init: if (typeof THREE === 'undefined') return;
ShouldInit(width, three) == width > DesktopWidth /\ three

\* (Math.random() - 0.5) * 10, for Math.random() = r / 10
Position(r) == ((r - 5) * 10) \div 10

\* animate without its requestAnimationFrame.
RequestNoFrame(pending) == pending

\* requestAnimationFrame(() => this.animate());
RequestFrame(pending) == pending + 1

\* animate: the four  rotation +=  lines, in 1/10000
Rotate(rot, mouse) ==
  [x |-> rot.x + 5 + mouse.y * 2, y |-> rot.y + 10 + mouse.x * 2]

\* DOMContentLoaded: new ParticleBackground() behind the flag; constructor,
\* init, createScene, createParticles, setupEventListeners and the first
\* animate.
PtDOMContentLoaded ==
  /\ ~ptLoaded
  /\ ptLoaded' = TRUE
  /\ IF Includes(ptSearch, ParticlesFlag)
       THEN /\ ptBuiltAt' = {ptViewport.w}
            /\ IF ShouldInit(ptViewport.w, ptHasThree)
                 THEN /\ ptScene' = TRUE
                      /\ ptSize' = {ptViewport}
                      /\ \E rnd \in [1..NumParticles ->
                                       [1..3 -> RandomValues]] :
                           ptParticles' =
                             [i \in 1..NumParticles |->
                                [c \in 1..3 |-> Position(rnd[i][c])]]
                      /\ ptFramesPending' = RequestFrame(ptFramesPending)
                      /\ ptRotation' = Rotate(ptRotation, ptMouse)
                      /\ ptFrames' = ptFrames + 1
                 ELSE UNCHANGED <<ptScene, ptSize, ptParticles,
                                  ptFramesPending, ptRotation, ptFrames>>
       ELSE UNCHANGED <<ptBuiltAt, ptScene, ptSize, ptParticles,
                        ptFramesPending, ptRotation, ptFrames>>
  /\ UNCHANGED <<ptSearch, ptHasThree, ptViewport, ptMouse, ptRest>>

\* A frame callback runs animate.
PtFrame ==
  /\ ptFramesPending > 0
  /\ ptFrames < MaxFrames
  /\ IF ptParticles = <<>>
       THEN /\ ptFramesPending' = ptFramesPending - 1
            /\ UNCHANGED <<ptRotation, ptFrames>>
       ELSE /\ ptFramesPending' = RequestFrame(ptFramesPending - 1)
            /\ ptRotation' = Rotate(ptRotation, ptMouse)
            /\ ptFrames' = ptFrames + 1
  /\ UNCHANGED <<ptSearch, ptHasThree, ptViewport, ptLoaded, ptBuiltAt,
                 ptScene, ptSize, ptParticles, ptMouse, ptRest>>

\* mousemove, heard once setupEventListeners has run.
PtMouseMove(kx, ky) ==
  /\ ptScene
  /\ ptMouse' = [x |-> kx - 1, y |-> -ky + 1]
  /\ UNCHANGED <<ptSearch, ptHasThree, ptViewport, ptLoaded, ptBuiltAt,
                 ptScene, ptSize, ptParticles, ptRotation, ptFramesPending,
                 ptFrames, ptRest>>

\* The window is resized; the listener, once set up, resizes the renderer.
PtResize(v) ==
  /\ v # ptViewport
  /\ ptViewport' = v
  /\ ptSize' = IF ptScene THEN {v} ELSE ptSize
  /\ UNCHANGED <<ptSearch, ptHasThree, ptLoaded, ptBuiltAt, ptScene,
                 ptParticles, ptRotation, ptMouse, ptFramesPending, ptFrames,
                 ptRest>>

PtNext ==
  \/ PtDOMContentLoaded
  \/ PtFrame
  \/ \E kx, ky \in MousePoints : PtMouseMove(kx, ky)
  \/ \E v \in Viewports : PtResize(v)

----------------------------------------------------------------------------
(***************************************************************************)
(* Header background and scroll indicator: script.js, handleScroll, and    *)
(* its throttled scroll listener.                                          *)
(***************************************************************************)

\* The values of window.scrollY; negative while the page is pulled past
\* its top (elastic overscroll).
HeaderOffsets == {-50, -1, 0, 1, 50, 99, 100, 101, 750}

\* Math.min(a, b)
MathMin(a, b) == IF a <= b THEN a ELSE b

\* const opacity = Math.min(scrollY / 100, 1), in 1/1000
ScrollOpacity(y) == MathMin(y * 10, 1000)

\* rgba(10, 10, 15, ${0.8 + opacity * 0.2}): the alpha, in 1/1000
HeaderAlpha(y) == 800 + (ScrollOpacity(y) * 200) \div 1000

\* scrollY > 100 ? '0' : '1'
IndicatorOpacity(y) == IF y > 100 THEN "0" ELSE "1"

\* A scroll event: the throttled listener runs handleScroll, or drops the
\* event.
HdrScroll(y) ==
  /\ hdrScrollY' = y
  /\ LET r == Throttled(hdrInThrottle)
     IN /\ hdrInThrottle' = r.inThrottle
        /\ hdrReadY' = IF r.run THEN {y} ELSE hdrReadY
        /\ hdrAlpha' = IF r.run /\ hdrHasNav THEN {HeaderAlpha(y)}
                                             ELSE hdrAlpha
        /\ hdrIndicator' = IF r.run /\ hdrHasIndicator
                             THEN {IndicatorOpacity(y)}
                             ELSE hdrIndicator
  /\ UNCHANGED <<hdrHasNav, hdrHasIndicator, hdrRest>>

\* The throttle timer of the scroll listener fires.
HdrThrottleExpire ==
  /\ hdrInThrottle
  /\ hdrInThrottle' = FALSE
  /\ UNCHANGED <<hdrHasNav, hdrHasIndicator, hdrScrollY, hdrAlpha,
                 hdrIndicator, hdrReadY, hdrRest>>

HdrNext ==
  \/ \E y \in HeaderOffsets : HdrScroll(y)
  \/ HdrThrottleExpire

----------------------------------------------------------------------------
(***************************************************************************)
(* Scroll observer: script.js, initScrollObserver and                      *)
(* triggerSectionAnimation.                                                *)
(***************************************************************************)

\* '.section, .timeline-item, .skill-card, .project-card': two sections
\* with an animation, a section without one, and a card without an id.
Watched == {"about", "skills", "contact", "skill-card"}

\* The cases of the switch in triggerSectionAnimation.
AnimatedSections == {"about", "experience", "skills", "projects"}

\* Most became-visible reactions of one element.
MaxReactions == 3

\* triggerSectionAnimation: the number of animations it starts.
TriggerSectionAnimation(el) == IF el \in AnimatedSections THEN 1 ELSE 0

\* section.querySelectorAll('.skill-card') for #skills, in document order:
\* the cards of every skill group.
RECURSIVE CardsFrom(_)
CardsFrom(i) ==
  IF i > Len(GroupOrder) THEN <<>>
  ELSE GroupCards(GroupOrder[i]) \o CardsFrom(i + 1)

\* The timers triggerSectionAnimation sets on the skill cards:
\* case 'skills': this.animateSkillCards(section)
SectionTimers(el) ==
  IF el = "skills" THEN AnimateSkillCards(CardsFrom(1)) ELSE <<>>

\* The element enters the viewport; the observer callback, if the element
\* is observed, sees entry.isIntersecting.
ObsEnter(el) ==
  /\ el \notin obsInView
  /\ obsReactions[el] < MaxReactions
  /\ obsInView' = obsInView \cup {el}
  /\ IF el \in obsObserved
       THEN /\ obsAnimateIn' = obsAnimateIn \cup {el}
            /\ obsReactions' = [obsReactions EXCEPT ![el] = @ + 1]
            /\ obsAnimations' =
                 [obsAnimations EXCEPT ![el] = @ + TriggerSectionAnimation(el)]
            /\ tabTimers' = tabTimers \o SectionTimers(el)
       ELSE UNCHANGED <<obsAnimateIn, obsReactions, obsAnimations, tabTimers>>
  /\ UNCHANGED <<obsObserved, tabActive, groupActive, cardsShown, lastTab,
                 obsRest>>

\* The element leaves the viewport; the callback does nothing for it.
ObsLeave(el) ==
  /\ el \in obsInView
  /\ obsInView' = obsInView \ {el}
  /\ UNCHANGED <<obsObserved, obsAnimateIn, obsReactions, obsAnimations,
                 tabVars, obsRest>>

\* The observer callbacks, and the skill-card timers they set.
ObsNext ==
  \/ \E el \in Watched : ObsEnter(el)
  \/ \E el \in Watched : ObsLeave(el)
  \/ TabRevealFire
  \/ TabTick

----------------------------------------------------------------------------
(***************************************************************************)
(* Specifications: one per subsystem, the others held at rest.             *)
(***************************************************************************)

\* Navigation: any layout, any set of links, no link or one link active in
\* the markup; the other subsystems at rest.
NavInit ==
  /\ layout \in Layouts
  /\ navLinks \in SUBSET LinkTargets
  /\ navActive \in {{}} \cup {{l} : l \in navLinks}
  /\ currentSection = "home"
  /\ scrollY = 0
  /\ navInThrottle = FALSE
  /\ lastNavPos = {}
  /\ statAttr = <<"1", "5", "0">>
  /\ statObserved = TRUE
  /\ statStarted = FALSE
  /\ statTarget = Num(0)
  /\ statCurrent = Num(0)
  /\ statText = <<"0">>
  /\ statFrame = FALSE
  /\ statInView = FALSE
  /\ statStarts = 0
  /\ statEntries = 0
  /\ tabActive = {"data"}
  /\ groupActive = {"g1"}
  /\ tabTimers = <<>>
  /\ cardsShown = {}
  /\ lastTab = {}
  /\ cardVariant = "gated"
  /\ innerWidth = 1024
  /\ flipped = {}
  /\ resizePending = FALSE
  /\ clickHist = <<>>
  /\ clearedWide = FALSE
  /\ hasToggle = TRUE
  /\ hasMenu = TRUE
  /\ toggleActive = FALSE
  /\ menuActive = FALSE
  /\ menuTimer = FALSE
  /\ menuTimerId = 0
  /\ menuStart = [toggle |-> toggleActive, menu |-> menuActive]
  /\ menuHist = [op |-> "load", wasOpen |-> FALSE]
  /\ thrLimit = 2
  /\ thrClock = 0
  /\ thrInThrottle = FALSE
  /\ thrTimers = {}
  /\ thrCalls = 0
  /\ thrFirstCall = {}
  /\ thrRuns = <<>>
  /\ debWait = 2
  /\ debClock = 0
  /\ debTimeout = 0
  /\ debTimers = {}
  /\ debCalls = 0
  /\ debLastCall = {}
  /\ debBurst = TRUE
  /\ debRuns = <<>>
  /\ ptSearch = <<>>
  /\ ptHasThree = FALSE
  /\ ptViewport = [w |-> 1024, h |-> 768]
  /\ ptLoaded = FALSE
  /\ ptBuiltAt = {}
  /\ ptScene = FALSE
  /\ ptSize = {}
  /\ ptParticles = <<>>
  /\ ptRotation = [x |-> 0, y |-> 0]
  /\ ptMouse = [x |-> 0, y |-> 0]
  /\ ptFramesPending = 0
  /\ ptFrames = 0
  /\ hdrHasNav = TRUE
  /\ hdrHasIndicator = TRUE
  /\ hdrScrollY = 0
  /\ hdrInThrottle = FALSE
  /\ hdrAlpha = {}
  /\ hdrIndicator = {}
  /\ hdrReadY = {}
  /\ obsObserved = Watched
  /\ obsInView = {}
  /\ obsAnimateIn = {}
  /\ obsReactions = [e \in Watched |-> 0]
  /\ obsAnimations = [e \in Watched |-> 0]

SpecNav == NavInit /\ [][NavNext]_vars

\* Stat counter: any data-target attribute, the element observed, its text
\* the markup's "0".
StatInit ==
  /\ layout = ExampleLayout
  /\ navLinks = SectionIds
  /\ navActive = {}
  /\ currentSection = "home"
  /\ scrollY = 0
  /\ navInThrottle = FALSE
  /\ lastNavPos = {}
  /\ statAttr \in AttrStrings
  /\ statObserved = TRUE
  /\ statStarted = FALSE
  /\ statTarget = Num(0)
  /\ statCurrent = Num(0)
  /\ statText = <<"0">>
  /\ statFrame = FALSE
  /\ statInView = FALSE
  /\ statStarts = 0
  /\ statEntries = 0
  /\ tabActive = {"data"}
  /\ groupActive = {"g1"}
  /\ tabTimers = <<>>
  /\ cardsShown = {}
  /\ lastTab = {}
  /\ cardVariant = "gated"
  /\ innerWidth = 1024
  /\ flipped = {}
  /\ resizePending = FALSE
  /\ clickHist = <<>>
  /\ clearedWide = FALSE
  /\ hasToggle = TRUE
  /\ hasMenu = TRUE
  /\ toggleActive = FALSE
  /\ menuActive = FALSE
  /\ menuTimer = FALSE
  /\ menuTimerId = 0
  /\ menuStart = [toggle |-> toggleActive, menu |-> menuActive]
  /\ menuHist = [op |-> "load", wasOpen |-> FALSE]
  /\ thrLimit = 2
  /\ thrClock = 0
  /\ thrInThrottle = FALSE
  /\ thrTimers = {}
  /\ thrCalls = 0
  /\ thrFirstCall = {}
  /\ thrRuns = <<>>
  /\ debWait = 2
  /\ debClock = 0
  /\ debTimeout = 0
  /\ debTimers = {}
  /\ debCalls = 0
  /\ debLastCall = {}
  /\ debBurst = TRUE
  /\ debRuns = <<>>
  /\ ptSearch = <<>>
  /\ ptHasThree = FALSE
  /\ ptViewport = [w |-> 1024, h |-> 768]
  /\ ptLoaded = FALSE
  /\ ptBuiltAt = {}
  /\ ptScene = FALSE
  /\ ptSize = {}
  /\ ptParticles = <<>>
  /\ ptRotation = [x |-> 0, y |-> 0]
  /\ ptMouse = [x |-> 0, y |-> 0]
  /\ ptFramesPending = 0
  /\ ptFrames = 0
  /\ hdrHasNav = TRUE
  /\ hdrHasIndicator = TRUE
  /\ hdrScrollY = 0
  /\ hdrInThrottle = FALSE
  /\ hdrAlpha = {}
  /\ hdrIndicator = {}
  /\ hdrReadY = {}
  /\ obsObserved = Watched
  /\ obsInView = {}
  /\ obsAnimateIn = {}
  /\ obsReactions = [e \in Watched |-> 0]
  /\ obsAnimations = [e \in Watched |-> 0]

SpecStats == StatInit /\ [][StatNext]_vars

\* The browser runs every requested animation frame callback.
FairSpecStats == SpecStats /\ WF_vars(StatAnimationFrame)

\* Tabs: the markup starts with the first tab and its group active.
TabInit ==
  /\ layout = ExampleLayout
  /\ navLinks = SectionIds
  /\ navActive = {}
  /\ currentSection = "home"
  /\ scrollY = 0
  /\ navInThrottle = FALSE
  /\ lastNavPos = {}
  /\ statAttr = <<"1", "5", "0">>
  /\ statObserved = TRUE
  /\ statStarted = FALSE
  /\ statTarget = Num(0)
  /\ statCurrent = Num(0)
  /\ statText = <<"0">>
  /\ statFrame = FALSE
  /\ statInView = FALSE
  /\ statStarts = 0
  /\ statEntries = 0
  /\ tabActive = {"data"}
  /\ groupActive = {"g1"}
  /\ tabTimers = <<>>
  /\ cardsShown = {}
  /\ lastTab = {}
  /\ cardVariant = "gated"
  /\ innerWidth = 1024
  /\ flipped = {}
  /\ resizePending = FALSE
  /\ clickHist = <<>>
  /\ clearedWide = FALSE
  /\ hasToggle = TRUE
  /\ hasMenu = TRUE
  /\ toggleActive = FALSE
  /\ menuActive = FALSE
  /\ menuTimer = FALSE
  /\ menuTimerId = 0
  /\ menuStart = [toggle |-> toggleActive, menu |-> menuActive]
  /\ menuHist = [op |-> "load", wasOpen |-> FALSE]
  /\ thrLimit = 2
  /\ thrClock = 0
  /\ thrInThrottle = FALSE
  /\ thrTimers = {}
  /\ thrCalls = 0
  /\ thrFirstCall = {}
  /\ thrRuns = <<>>
  /\ debWait = 2
  /\ debClock = 0
  /\ debTimeout = 0
  /\ debTimers = {}
  /\ debCalls = 0
  /\ debLastCall = {}
  /\ debBurst = TRUE
  /\ debRuns = <<>>
  /\ ptSearch = <<>>
  /\ ptHasThree = FALSE
  /\ ptViewport = [w |-> 1024, h |-> 768]
  /\ ptLoaded = FALSE
  /\ ptBuiltAt = {}
  /\ ptScene = FALSE
  /\ ptSize = {}
  /\ ptParticles = <<>>
  /\ ptRotation = [x |-> 0, y |-> 0]
  /\ ptMouse = [x |-> 0, y |-> 0]
  /\ ptFramesPending = 0
  /\ ptFrames = 0
  /\ hdrHasNav = TRUE
  /\ hdrHasIndicator = TRUE
  /\ hdrScrollY = 0
  /\ hdrInThrottle = FALSE
  /\ hdrAlpha = {}
  /\ hdrIndicator = {}
  /\ hdrReadY = {}
  /\ obsObserved = Watched
  /\ obsInView = {}
  /\ obsAnimateIn = {}
  /\ obsReactions = [e \in Watched |-> 0]
  /\ obsAnimations = [e \in Watched |-> 0]

SpecTabs == TabInit /\ [][TabNext]_vars

\* Cards: either flip script, any viewport width, no card flipped.
CardInit ==
  /\ layout = ExampleLayout
  /\ navLinks = SectionIds
  /\ navActive = {}
  /\ currentSection = "home"
  /\ scrollY = 0
  /\ navInThrottle = FALSE
  /\ lastNavPos = {}
  /\ statAttr = <<"1", "5", "0">>
  /\ statObserved = TRUE
  /\ statStarted = FALSE
  /\ statTarget = Num(0)
  /\ statCurrent = Num(0)
  /\ statText = <<"0">>
  /\ statFrame = FALSE
  /\ statInView = FALSE
  /\ statStarts = 0
  /\ statEntries = 0
  /\ tabActive = {"data"}
  /\ groupActive = {"g1"}
  /\ tabTimers = <<>>
  /\ cardsShown = {}
  /\ lastTab = {}
  /\ cardVariant \in Variants
  /\ innerWidth \in Widths
  /\ flipped = {}
  /\ resizePending = FALSE
  /\ clickHist = <<>>
  /\ clearedWide = FALSE
  /\ hasToggle = TRUE
  /\ hasMenu = TRUE
  /\ toggleActive = FALSE
  /\ menuActive = FALSE
  /\ menuTimer = FALSE
  /\ menuTimerId = 0
  /\ menuStart = [toggle |-> toggleActive, menu |-> menuActive]
  /\ menuHist = [op |-> "load", wasOpen |-> FALSE]
  /\ thrLimit = 2
  /\ thrClock = 0
  /\ thrInThrottle = FALSE
  /\ thrTimers = {}
  /\ thrCalls = 0
  /\ thrFirstCall = {}
  /\ thrRuns = <<>>
  /\ debWait = 2
  /\ debClock = 0
  /\ debTimeout = 0
  /\ debTimers = {}
  /\ debCalls = 0
  /\ debLastCall = {}
  /\ debBurst = TRUE
  /\ debRuns = <<>>
  /\ ptSearch = <<>>
  /\ ptHasThree = FALSE
  /\ ptViewport = [w |-> 1024, h |-> 768]
  /\ ptLoaded = FALSE
  /\ ptBuiltAt = {}
  /\ ptScene = FALSE
  /\ ptSize = {}
  /\ ptParticles = <<>>
  /\ ptRotation = [x |-> 0, y |-> 0]
  /\ ptMouse = [x |-> 0, y |-> 0]
  /\ ptFramesPending = 0
  /\ ptFrames = 0
  /\ hdrHasNav = TRUE
  /\ hdrHasIndicator = TRUE
  /\ hdrScrollY = 0
  /\ hdrInThrottle = FALSE
  /\ hdrAlpha = {}
  /\ hdrIndicator = {}
  /\ hdrReadY = {}
  /\ obsObserved = Watched
  /\ obsInView = {}
  /\ obsAnimateIn = {}
  /\ obsReactions = [e \in Watched |-> 0]
  /\ obsAnimations = [e \in Watched |-> 0]

SpecCards == CardInit /\ [][CardNext]_vars

\* Menu: the toggle and the menu may each be missing from the markup, and
\* each may start with or without 'active'; any viewport width.
MenuInit ==
  /\ layout = ExampleLayout
  /\ navLinks = SectionIds
  /\ navActive = {}
  /\ currentSection = "home"
  /\ scrollY = 0
  /\ navInThrottle = FALSE
  /\ lastNavPos = {}
  /\ statAttr = <<"1", "5", "0">>
  /\ statObserved = TRUE
  /\ statStarted = FALSE
  /\ statTarget = Num(0)
  /\ statCurrent = Num(0)
  /\ statText = <<"0">>
  /\ statFrame = FALSE
  /\ statInView = FALSE
  /\ statStarts = 0
  /\ statEntries = 0
  /\ tabActive = {"data"}
  /\ groupActive = {"g1"}
  /\ tabTimers = <<>>
  /\ cardsShown = {}
  /\ lastTab = {}
  /\ cardVariant = "gated"
  /\ innerWidth \in Widths
  /\ flipped = {}
  /\ resizePending = FALSE
  /\ clickHist = <<>>
  /\ clearedWide = FALSE
  /\ hasToggle \in BOOLEAN
  /\ hasMenu \in BOOLEAN
  /\ toggleActive \in (IF hasToggle THEN BOOLEAN ELSE {FALSE})
  /\ menuActive \in (IF hasMenu THEN BOOLEAN ELSE {FALSE})
  /\ menuTimer = FALSE
  /\ menuTimerId = 0
  /\ menuStart = [toggle |-> toggleActive, menu |-> menuActive]
  /\ menuHist = [op |-> "load", wasOpen |-> menuActive]
  /\ thrLimit = 2
  /\ thrClock = 0
  /\ thrInThrottle = FALSE
  /\ thrTimers = {}
  /\ thrCalls = 0
  /\ thrFirstCall = {}
  /\ thrRuns = <<>>
  /\ debWait = 2
  /\ debClock = 0
  /\ debTimeout = 0
  /\ debTimers = {}
  /\ debCalls = 0
  /\ debLastCall = {}
  /\ debBurst = TRUE
  /\ debRuns = <<>>
  /\ ptSearch = <<>>
  /\ ptHasThree = FALSE
  /\ ptViewport = [w |-> 1024, h |-> 768]
  /\ ptLoaded = FALSE
  /\ ptBuiltAt = {}
  /\ ptScene = FALSE
  /\ ptSize = {}
  /\ ptParticles = <<>>
  /\ ptRotation = [x |-> 0, y |-> 0]
  /\ ptMouse = [x |-> 0, y |-> 0]
  /\ ptFramesPending = 0
  /\ ptFrames = 0
  /\ hdrHasNav = TRUE
  /\ hdrHasIndicator = TRUE
  /\ hdrScrollY = 0
  /\ hdrInThrottle = FALSE
  /\ hdrAlpha = {}
  /\ hdrIndicator = {}
  /\ hdrReadY = {}
  /\ obsObserved = Watched
  /\ obsInView = {}
  /\ obsAnimateIn = {}
  /\ obsReactions = [e \in Watched |-> 0]
  /\ obsAnimations = [e \in Watched |-> 0]

SpecMenu == MenuInit /\ [][MenuNext]_vars

\* A timer that is set and not cleared fires.
FairSpecMenu == SpecMenu /\ \A id \in TimerIds : WF_vars(MenuTimerFire(id))

\* Throttle: a handler wrapped with any of the limits, not yet called.
ThrInit ==
  /\ layout = ExampleLayout
  /\ navLinks = SectionIds
  /\ navActive = {}
  /\ currentSection = "home"
  /\ scrollY = 0
  /\ navInThrottle = FALSE
  /\ lastNavPos = {}
  /\ statAttr = <<"1", "5", "0">>
  /\ statObserved = TRUE
  /\ statStarted = FALSE
  /\ statTarget = Num(0)
  /\ statCurrent = Num(0)
  /\ statText = <<"0">>
  /\ statFrame = FALSE
  /\ statInView = FALSE
  /\ statStarts = 0
  /\ statEntries = 0
  /\ tabActive = {"data"}
  /\ groupActive = {"g1"}
  /\ tabTimers = <<>>
  /\ cardsShown = {}
  /\ lastTab = {}
  /\ cardVariant = "gated"
  /\ innerWidth = 1024
  /\ flipped = {}
  /\ resizePending = FALSE
  /\ clickHist = <<>>
  /\ clearedWide = FALSE
  /\ hasToggle = TRUE
  /\ hasMenu = TRUE
  /\ toggleActive = FALSE
  /\ menuActive = FALSE
  /\ menuTimer = FALSE
  /\ menuTimerId = 0
  /\ menuStart = [toggle |-> toggleActive, menu |-> menuActive]
  /\ menuHist = [op |-> "load", wasOpen |-> FALSE]
  /\ thrLimit \in ThrottleLimits
  /\ thrClock = 0
  /\ thrInThrottle = FALSE
  /\ thrTimers = {}
  /\ thrCalls = 0
  /\ thrFirstCall = {}
  /\ thrRuns = <<>>
  /\ debWait = 2
  /\ debClock = 0
  /\ debTimeout = 0
  /\ debTimers = {}
  /\ debCalls = 0
  /\ debLastCall = {}
  /\ debBurst = TRUE
  /\ debRuns = <<>>
  /\ ptSearch = <<>>
  /\ ptHasThree = FALSE
  /\ ptViewport = [w |-> 1024, h |-> 768]
  /\ ptLoaded = FALSE
  /\ ptBuiltAt = {}
  /\ ptScene = FALSE
  /\ ptSize = {}
  /\ ptParticles = <<>>
  /\ ptRotation = [x |-> 0, y |-> 0]
  /\ ptMouse = [x |-> 0, y |-> 0]
  /\ ptFramesPending = 0
  /\ ptFrames = 0
  /\ hdrHasNav = TRUE
  /\ hdrHasIndicator = TRUE
  /\ hdrScrollY = 0
  /\ hdrInThrottle = FALSE
  /\ hdrAlpha = {}
  /\ hdrIndicator = {}
  /\ hdrReadY = {}
  /\ obsObserved = Watched
  /\ obsInView = {}
  /\ obsAnimateIn = {}
  /\ obsReactions = [e \in Watched |-> 0]
  /\ obsAnimations = [e \in Watched |-> 0]

SpecThrottle == ThrInit /\ [][ThrNext]_vars

\* Debounce: a handler wrapped with any of the waits, not yet called.
DebInit ==
  /\ layout = ExampleLayout
  /\ navLinks = SectionIds
  /\ navActive = {}
  /\ currentSection = "home"
  /\ scrollY = 0
  /\ navInThrottle = FALSE
  /\ lastNavPos = {}
  /\ statAttr = <<"1", "5", "0">>
  /\ statObserved = TRUE
  /\ statStarted = FALSE
  /\ statTarget = Num(0)
  /\ statCurrent = Num(0)
  /\ statText = <<"0">>
  /\ statFrame = FALSE
  /\ statInView = FALSE
  /\ statStarts = 0
  /\ statEntries = 0
  /\ tabActive = {"data"}
  /\ groupActive = {"g1"}
  /\ tabTimers = <<>>
  /\ cardsShown = {}
  /\ lastTab = {}
  /\ cardVariant = "gated"
  /\ innerWidth = 1024
  /\ flipped = {}
  /\ resizePending = FALSE
  /\ clickHist = <<>>
  /\ clearedWide = FALSE
  /\ hasToggle = TRUE
  /\ hasMenu = TRUE
  /\ toggleActive = FALSE
  /\ menuActive = FALSE
  /\ menuTimer = FALSE
  /\ menuTimerId = 0
  /\ menuStart = [toggle |-> toggleActive, menu |-> menuActive]
  /\ menuHist = [op |-> "load", wasOpen |-> FALSE]
  /\ thrLimit = 2
  /\ thrClock = 0
  /\ thrInThrottle = FALSE
  /\ thrTimers = {}
  /\ thrCalls = 0
  /\ thrFirstCall = {}
  /\ thrRuns = <<>>
  /\ debWait \in DebounceWaits
  /\ debClock = 0
  /\ debTimeout = 0
  /\ debTimers = {}
  /\ debCalls = 0
  /\ debLastCall = {}
  /\ debBurst = TRUE
  /\ debRuns = <<>>
  /\ ptSearch = <<>>
  /\ ptHasThree = FALSE
  /\ ptViewport = [w |-> 1024, h |-> 768]
  /\ ptLoaded = FALSE
  /\ ptBuiltAt = {}
  /\ ptScene = FALSE
  /\ ptSize = {}
  /\ ptParticles = <<>>
  /\ ptRotation = [x |-> 0, y |-> 0]
  /\ ptMouse = [x |-> 0, y |-> 0]
  /\ ptFramesPending = 0
  /\ ptFrames = 0
  /\ hdrHasNav = TRUE
  /\ hdrHasIndicator = TRUE
  /\ hdrScrollY = 0
  /\ hdrInThrottle = FALSE
  /\ hdrAlpha = {}
  /\ hdrIndicator = {}
  /\ hdrReadY = {}
  /\ obsObserved = Watched
  /\ obsInView = {}
  /\ obsAnimateIn = {}
  /\ obsReactions = [e \in Watched |-> 0]
  /\ obsAnimations = [e \in Watched |-> 0]

SpecDebounce == DebInit /\ [][DebNext]_vars

\* Time passes, and a timeout that is due fires.
FairSpecDebounce ==
  /\ SpecDebounce
  /\ WF_vars(DebTick)
  /\ WF_vars(\E t \in debTimers : DebTimerFire(t))

\* Particles: the page before DOMContentLoaded, with any query string, any
\* viewport, and the 3D library loaded or not.
PtInit ==
  /\ layout = ExampleLayout
  /\ navLinks = SectionIds
  /\ navActive = {}
  /\ currentSection = "home"
  /\ scrollY = 0
  /\ navInThrottle = FALSE
  /\ lastNavPos = {}
  /\ statAttr = <<"1", "5", "0">>
  /\ statObserved = TRUE
  /\ statStarted = FALSE
  /\ statTarget = Num(0)
  /\ statCurrent = Num(0)
  /\ statText = <<"0">>
  /\ statFrame = FALSE
  /\ statInView = FALSE
  /\ statStarts = 0
  /\ statEntries = 0
  /\ tabActive = {"data"}
  /\ groupActive = {"g1"}
  /\ tabTimers = <<>>
  /\ cardsShown = {}
  /\ lastTab = {}
  /\ cardVariant = "gated"
  /\ innerWidth = 1024
  /\ flipped = {}
  /\ resizePending = FALSE
  /\ clickHist = <<>>
  /\ clearedWide = FALSE
  /\ hasToggle = TRUE
  /\ hasMenu = TRUE
  /\ toggleActive = FALSE
  /\ menuActive = FALSE
  /\ menuTimer = FALSE
  /\ menuTimerId = 0
  /\ menuStart = [toggle |-> toggleActive, menu |-> menuActive]
  /\ menuHist = [op |-> "load", wasOpen |-> FALSE]
  /\ thrLimit = 2
  /\ thrClock = 0
  /\ thrInThrottle = FALSE
  /\ thrTimers = {}
  /\ thrCalls = 0
  /\ thrFirstCall = {}
  /\ thrRuns = <<>>
  /\ debWait = 2
  /\ debClock = 0
  /\ debTimeout = 0
  /\ debTimers = {}
  /\ debCalls = 0
  /\ debLastCall = {}
  /\ debBurst = TRUE
  /\ debRuns = <<>>
  /\ ptSearch \in Searches
  /\ ptHasThree \in BOOLEAN
  /\ ptViewport \in Viewports
  /\ ptLoaded = FALSE
  /\ ptBuiltAt = {}
  /\ ptScene = FALSE
  /\ ptSize = {}
  /\ ptParticles = <<>>
  /\ ptRotation = [x |-> 0, y |-> 0]
  /\ ptMouse = [x |-> 0, y |-> 0]
  /\ ptFramesPending = 0
  /\ ptFrames = 0
  /\ hdrHasNav = TRUE
  /\ hdrHasIndicator = TRUE
  /\ hdrScrollY = 0
  /\ hdrInThrottle = FALSE
  /\ hdrAlpha = {}
  /\ hdrIndicator = {}
  /\ hdrReadY = {}
  /\ obsObserved = Watched
  /\ obsInView = {}
  /\ obsAnimateIn = {}
  /\ obsReactions = [e \in Watched |-> 0]
  /\ obsAnimations = [e \in Watched |-> 0]

SpecParticles == PtInit /\ [][PtNext]_vars

\* Header: the page at the top, before any scroll event, with or without
\* a nav bar and a scroll indicator.
HdrInit ==
  /\ layout = ExampleLayout
  /\ navLinks = SectionIds
  /\ navActive = {}
  /\ currentSection = "home"
  /\ scrollY = 0
  /\ navInThrottle = FALSE
  /\ lastNavPos = {}
  /\ statAttr = <<"1", "5", "0">>
  /\ statObserved = TRUE
  /\ statStarted = FALSE
  /\ statTarget = Num(0)
  /\ statCurrent = Num(0)
  /\ statText = <<"0">>
  /\ statFrame = FALSE
  /\ statInView = FALSE
  /\ statStarts = 0
  /\ statEntries = 0
  /\ tabActive = {"data"}
  /\ groupActive = {"g1"}
  /\ tabTimers = <<>>
  /\ cardsShown = {}
  /\ lastTab = {}
  /\ cardVariant = "gated"
  /\ innerWidth = 1024
  /\ flipped = {}
  /\ resizePending = FALSE
  /\ clickHist = <<>>
  /\ clearedWide = FALSE
  /\ hasToggle = TRUE
  /\ hasMenu = TRUE
  /\ toggleActive = FALSE
  /\ menuActive = FALSE
  /\ menuTimer = FALSE
  /\ menuTimerId = 0
  /\ menuStart = [toggle |-> toggleActive, menu |-> menuActive]
  /\ menuHist = [op |-> "load", wasOpen |-> FALSE]
  /\ thrLimit = 2
  /\ thrClock = 0
  /\ thrInThrottle = FALSE
  /\ thrTimers = {}
  /\ thrCalls = 0
  /\ thrFirstCall = {}
  /\ thrRuns = <<>>
  /\ debWait = 2
  /\ debClock = 0
  /\ debTimeout = 0
  /\ debTimers = {}
  /\ debCalls = 0
  /\ debLastCall = {}
  /\ debBurst = TRUE
  /\ debRuns = <<>>
  /\ ptSearch = <<>>
  /\ ptHasThree = FALSE
  /\ ptViewport = [w |-> 1024, h |-> 768]
  /\ ptLoaded = FALSE
  /\ ptBuiltAt = {}
  /\ ptScene = FALSE
  /\ ptSize = {}
  /\ ptParticles = <<>>
  /\ ptRotation = [x |-> 0, y |-> 0]
  /\ ptMouse = [x |-> 0, y |-> 0]
  /\ ptFramesPending = 0
  /\ ptFrames = 0
  /\ hdrHasNav \in BOOLEAN
  /\ hdrHasIndicator \in BOOLEAN
  /\ hdrScrollY = 0
  /\ hdrInThrottle = FALSE
  /\ hdrAlpha = {}
  /\ hdrIndicator = {}
  /\ hdrReadY = {}
  /\ obsObserved = Watched
  /\ obsInView = {}
  /\ obsAnimateIn = {}
  /\ obsReactions = [e \in Watched |-> 0]
  /\ obsAnimations = [e \in Watched |-> 0]

SpecHeader == HdrInit /\ [][HdrNext]_vars

\* Scroll observer: every element observed, none reported visible yet.
ObsInit ==
  /\ layout = ExampleLayout
  /\ navLinks = SectionIds
  /\ navActive = {}
  /\ currentSection = "home"
  /\ scrollY = 0
  /\ navInThrottle = FALSE
  /\ lastNavPos = {}
  /\ statAttr = <<"1", "5", "0">>
  /\ statObserved = TRUE
  /\ statStarted = FALSE
  /\ statTarget = Num(0)
  /\ statCurrent = Num(0)
  /\ statText = <<"0">>
  /\ statFrame = FALSE
  /\ statInView = FALSE
  /\ statStarts = 0
  /\ statEntries = 0
  /\ tabActive = {"data"}
  /\ groupActive = {"g1"}
  /\ tabTimers = <<>>
  /\ cardsShown = {}
  /\ lastTab = {}
  /\ cardVariant = "gated"
  /\ innerWidth = 1024
  /\ flipped = {}
  /\ resizePending = FALSE
  /\ clickHist = <<>>
  /\ clearedWide = FALSE
  /\ hasToggle = TRUE
  /\ hasMenu = TRUE
  /\ toggleActive = FALSE
  /\ menuActive = FALSE
  /\ menuTimer = FALSE
  /\ menuTimerId = 0
  /\ menuStart = [toggle |-> toggleActive, menu |-> menuActive]
  /\ menuHist = [op |-> "load", wasOpen |-> FALSE]
  /\ thrLimit = 2
  /\ thrClock = 0
  /\ thrInThrottle = FALSE
  /\ thrTimers = {}
  /\ thrCalls = 0
  /\ thrFirstCall = {}
  /\ thrRuns = <<>>
  /\ debWait = 2
  /\ debClock = 0
  /\ debTimeout = 0
  /\ debTimers = {}
  /\ debCalls = 0
  /\ debLastCall = {}
  /\ debBurst = TRUE
  /\ debRuns = <<>>
  /\ ptSearch = <<>>
  /\ ptHasThree = FALSE
  /\ ptViewport = [w |-> 1024, h |-> 768]
  /\ ptLoaded = FALSE
  /\ ptBuiltAt = {}
  /\ ptScene = FALSE
  /\ ptSize = {}
  /\ ptParticles = <<>>
  /\ ptRotation = [x |-> 0, y |-> 0]
  /\ ptMouse = [x |-> 0, y |-> 0]
  /\ ptFramesPending = 0
  /\ ptFrames = 0
  /\ hdrHasNav = TRUE
  /\ hdrHasIndicator = TRUE
  /\ hdrScrollY = 0
  /\ hdrInThrottle = FALSE
  /\ hdrAlpha = {}
  /\ hdrIndicator = {}
  /\ hdrReadY = {}
  /\ obsObserved = Watched
  /\ obsInView = {}
  /\ obsAnimateIn = {}
  /\ obsReactions = [e \in Watched |-> 0]
  /\ obsAnimations = [e \in Watched |-> 0]

SpecObserver == ObsInit /\ [][ObsNext]_vars

\* Every subsystem from its rest state, interleaved.
Init ==
  /\ layout = ExampleLayout
  /\ navLinks = SectionIds
  /\ navActive = {}
  /\ currentSection = "home"
  /\ scrollY = 0
  /\ navInThrottle = FALSE
  /\ lastNavPos = {}
  /\ statAttr = <<"1", "5", "0">>
  /\ statObserved = TRUE
  /\ statStarted = FALSE
  /\ statTarget = Num(0)
  /\ statCurrent = Num(0)
  /\ statText = <<"0">>
  /\ statFrame = FALSE
  /\ statInView = FALSE
  /\ statStarts = 0
  /\ statEntries = 0
  /\ tabActive = {"data"}
  /\ groupActive = {"g1"}
  /\ tabTimers = <<>>
  /\ cardsShown = {}
  /\ lastTab = {}
  /\ cardVariant = "gated"
  /\ innerWidth = 1024
  /\ flipped = {}
  /\ resizePending = FALSE
  /\ clickHist = <<>>
  /\ clearedWide = FALSE
  /\ hasToggle = TRUE
  /\ hasMenu = TRUE
  /\ toggleActive = FALSE
  /\ menuActive = FALSE
  /\ menuTimer = FALSE
  /\ menuTimerId = 0
  /\ menuStart = [toggle |-> toggleActive, menu |-> menuActive]
  /\ menuHist = [op |-> "load", wasOpen |-> FALSE]
  /\ thrLimit = 2
  /\ thrClock = 0
  /\ thrInThrottle = FALSE
  /\ thrTimers = {}
  /\ thrCalls = 0
  /\ thrFirstCall = {}
  /\ thrRuns = <<>>
  /\ debWait = 2
  /\ debClock = 0
  /\ debTimeout = 0
  /\ debTimers = {}
  /\ debCalls = 0
  /\ debLastCall = {}
  /\ debBurst = TRUE
  /\ debRuns = <<>>
  /\ ptSearch = <<>>
  /\ ptHasThree = FALSE
  /\ ptViewport = [w |-> 1024, h |-> 768]
  /\ ptLoaded = FALSE
  /\ ptBuiltAt = {}
  /\ ptScene = FALSE
  /\ ptSize = {}
  /\ ptParticles = <<>>
  /\ ptRotation = [x |-> 0, y |-> 0]
  /\ ptMouse = [x |-> 0, y |-> 0]
  /\ ptFramesPending = 0
  /\ ptFrames = 0
  /\ hdrHasNav = TRUE
  /\ hdrHasIndicator = TRUE
  /\ hdrScrollY = 0
  /\ hdrInThrottle = FALSE
  /\ hdrAlpha = {}
  /\ hdrIndicator = {}
  /\ hdrReadY = {}
  /\ obsObserved = Watched
  /\ obsInView = {}
  /\ obsAnimateIn = {}
  /\ obsReactions = [e \in Watched |-> 0]
  /\ obsAnimations = [e \in Watched |-> 0]

Next == NavNext \/ StatNext \/ TabNext \/ CardNext \/ MenuNext \/ ThrNext \/ DebNext \/ PtNext \/ HdrNext \/ ObsNext

Spec == Init /\ [][Next]_vars

----------------------------------------------------------------------------
(***************************************************************************)
(* Properties.                                                             *)
(***************************************************************************)

\* The ranges [top, top + height) of two different sections never meet.
NonOverlapping(lay) ==
  \A s, t \in SectionIds :
    s # t => \/ lay[s].top + lay[s].height <= lay[t].top
             \/ lay[t].top + lay[t].height <= lay[s].top

\* Each section starts where the previous one (in document order) ends.
Contiguous(lay) ==
  \A i \in 1..(Len(SectionOrder) - 1) :
    lay[SectionOrder[i + 1]].top
      = lay[SectionOrder[i]].top + lay[SectionOrder[i]].height

\* Position pos lies in section s's range [top, top + height).
Within(lay, s, pos) ==
  lay[s].top <= pos /\ pos < lay[s].top + lay[s].height

\* The sections whose range holds the adjusted position pos.
Matching(lay, pos) == {s \in SectionIds : Within(lay, s, pos)}

\* C1: in every reachable state, whatever the section layout (gaps and
\* overlapping sections included) and whatever scroll updates have run, at
\* most one navigation link carries 'active'.
C1_AtMostOneActive == Cardinality(navActive) <= 1

\* C1 witness: an update ran at a position inside two overlapping sections
\* that both have a link, and one link is active.
C1_Witness ==
  /\ \E pos \in lastNavPos : \E s, t \in navLinks \cap SectionIds :
       s # t /\ Within(layout, s, pos) /\ Within(layout, t, pos)
  /\ Cardinality(navActive) = 1

\* C2 (the claim as stated): after an update whose adjusted position lies in
\* no section's range, no link is active.
C2_NoMatchClearsActive ==
  \A pos \in lastNavPos : Matching(layout, pos) = {} => navActive = {}

\* C3: for non-overlapping sections (contiguous ones in particular), after an
\* update whose adjusted position falls in the range of a section k that has
\* a link, exactly the link of k is active.
C3_ExactlyMatchingLink ==
  \A pos \in lastNavPos : \A k \in SectionIds :
    (/\ NonOverlapping(layout)
     /\ k \in navLinks
     /\ Within(layout, k, pos)) => navActive = {k}

\* C3 witness: the spec's example. Heights 800/600/900 from y = 0, every
\* section linked, adjusted position 850: the second link only.
C3_Witness ==
  /\ layout = ExampleLayout
  /\ Contiguous(layout) /\ NonOverlapping(layout)
  /\ SectionIds \subseteq navLinks
  /\ lastNavPos = {850}
  /\ navActive = {"experience"}

\* The integer shown by a string of digits with an optional sign.
Shown(text) == ParseInt(text)

\* C4: for a stat element whose data-target parses to an integer, once the
\* count-up is started no displayed value exceeds the target, the text shown
\* when no frame is pending is exactly the target, and the animation
\* eventually stops requesting frames.
C4_CountUpReachesTarget ==
  /\ [](statStarted /\ ~ParseInt(statAttr).nan =>
          /\ ~Shown(statText).nan
          /\ Shown(statText).val <= ParseInt(statAttr).val
          /\ (~statFrame => statText = NumToStr(ParseInt(statAttr))))
  /\ ((statStarted /\ ~ParseInt(statAttr).nan) ~> ~statFrame)

\* C4 witness: the spec's example. data-target "150", the animation complete
\* after Frames steps, text "150".
C4_Witness ==
  /\ statAttr = <<"1", "5", "0">>
  /\ statStarted /\ ~statFrame
  /\ statCurrent = Num(Frames * 150)
  /\ statText = <<"1", "5", "0">>

\* C5 (the claim as stated): with a data-target that does not parse to an
\* integer, the started count-up has stopped and shows 0.
C5_UnparseableFallsBackToZero ==
  (statStarted /\ ParseInt(statAttr).nan) =>
     (~statFrame /\ statText = <<"0">>)

\* The category of a tab's or a group's data-category.
ActiveCategories == {GroupCategory(g) : g \in groupActive}

\* C6 (the claim as stated): whatever clicks and timer firings have happened,
\* exactly one tab is active and the active groups are all of one category.
C6_OneCategoryActive ==
  /\ Cardinality(tabActive) = 1
  /\ Cardinality(ActiveCategories) <= 1

\* C7 (the claim as stated): once every timer pending after the last click
\* has fired, the active groups are exactly the groups of the tab clicked last.
C7_LastClickWins ==
  \A tab \in lastTab :
    GroupTimersPending = <<>> =>
      groupActive = {g \in SkillGroups : GroupCategory(g) = tab}

\* C8: two consecutive clicks on one card, with no viewport change and no
\* resize event between them, leave every card's flipped state as it was
\* before the first of them, in both flip scripts.
C8_DoubleClickRestores ==
  (Len(clickHist) = 2 /\ clickHist[1].card = clickHist[2].card) =>
     flipped = clickHist[1].before

\* C8 witness: a card was flipped and flipped back by two clicks in a row.
C8_Witness ==
  /\ Len(clickHist) = 2
  /\ clickHist[1].card = clickHist[2].card
  /\ clickHist[1].card \notin clickHist[1].before
  /\ clickHist[1].card \in clickHist[2].before
  /\ flipped = clickHist[1].before

\* A step is a click when it leaves a click as the newest history entry.
\* C9: in the gated script, a click above the breakpoint changes no card, and
\* a card goes from not flipped to flipped only in a click on that card at a
\* width of at most the breakpoint.
C9_FlipOnlyBelowBreakpoint ==
  [][cardVariant = "gated" =>
       /\ (clickHist' # <<>> /\ innerWidth > Breakpoint => flipped' = flipped)
       /\ \A c \in Cards :
            (c \notin flipped /\ c \in flipped') =>
               /\ clickHist' # <<>>
               /\ clickHist'[Len(clickHist')].card = c
               /\ innerWidth <= Breakpoint]_vars

\* C9 witness: the gated script, a card flipped by a click at 768 before the
\* resize event of a widening to 769 is dispatched, then clicked again, in
\* vain, at 769.
C9_Witness ==
  /\ cardVariant = "gated"
  /\ innerWidth = Breakpoint + 1
  /\ clickHist # <<>>
  /\ clickHist[Len(clickHist)].before = flipped
  /\ flipped # {}

\* C10: in the gated script, once a resize event has been handled at a width
\* above the breakpoint, no card is flipped for as long as the width stays
\* above the breakpoint.
C10_WideResizeClears ==
  (cardVariant = "gated" /\ clearedWide) => flipped = {}

\* C10 witness: cards were flipped below the breakpoint, the viewport was
\* widened, the resize was handled, and a card was clicked since.
C10_Witness ==
  /\ cardVariant = "gated"
  /\ clearedWide
  /\ innerWidth > Breakpoint
  /\ clickHist # <<>>
  /\ flipped = {}

\* The viewport has just been resized to a width above the breakpoint while
\* the menu was open.
ResizedWideWhileOpen ==
  menuHist.op = "resize" /\ menuHist.wasOpen /\ innerWidth > Breakpoint

MenuCleared == ~toggleActive /\ ~menuActive

\* C11 (the claim as stated): whenever the viewport is resized to a width
\* above 768 while the menu is open, the menu and the toggle are eventually
\* cleared of 'active', whatever resize events and clicks follow.
C11_WideResizeEventuallyClears == ResizedWideWhileOpen ~> MenuCleared

\* C11 (amended): whenever the viewport is resized to a width above 768 while
\* the menu is open, eventually the menu and the toggle are cleared of
\* 'active', or the viewport is back at 768 or below (where the debounced
\* handler clears nothing), or a further resize event has replaced the
\* 250 ms timer and the wait has started again.
C11_WideResizeClearsUnlessNarrowed ==
  \A id \in TimerIds :
    (ResizedWideWhileOpen /\ menuTimerId = id)
      ~> (MenuCleared \/ innerWidth <= Breakpoint \/ menuTimerId # id)

\* C11 witness: the debounced handler ran above the breakpoint on an open
\* menu and cleared it.
C11_Witness ==
  /\ menuHist.op = "handleResize" /\ menuHist.wasOpen
  /\ innerWidth > Breakpoint
  /\ hasToggle /\ hasMenu
  /\ MenuCleared

\* The throttle window opened by the last executed call is still pending.
WindowPending == thrTimers # {}

\* C12: for a handler wrapped by throttle(func, limit): the first call runs
\* func at the time of the call, a call that arrives while the window opened
\* by an executed call is pending does not run func, and two runs of func
\* are never less than limit apart.
C12_ThrottleOncePerLimit ==
  /\ [](/\ thrFirstCall # {} =>
             /\ Len(thrRuns) >= 1
             /\ thrFirstCall = {thrRuns[1]}
        /\ \A i \in 1..(Len(thrRuns) - 1) :
             thrRuns[i + 1] - thrRuns[i] >= thrLimit)
  /\ [][(WindowPending /\ thrCalls' = thrCalls + 1) => thrRuns' = thrRuns]_vars

\* C12 witness: three calls, the second dropped inside the window of the
\* first, the third run exactly limit after the first.
C12_Witness ==
  /\ thrCalls = 3
  /\ Len(thrRuns) = 2
  /\ thrFirstCall = {thrRuns[1]}
  /\ thrRuns[2] - thrRuns[1] = thrLimit

\* C13: for a handler wrapped by debounce(func, wait): at most one timeout
\* is pending at any time; while the calls form one burst (each less than
\* wait after the previous one) func has run at most once, a run happened
\* wait or more after the last call with the last call's arguments, and a
\* burst with nothing pending has run func; and func does run once.
C13_DebounceRunsOnceAfterBurst ==
  /\ [](/\ Cardinality(debTimers) <= 1
        /\ debBurst =>
             /\ Len(debRuns) <= 1
             /\ \A i \in 1..Len(debRuns) :
                  /\ debRuns[i].args = debCalls
                  /\ \A at \in debLastCall : debRuns[i].at >= at + debWait
             /\ debCalls >= 1 => Cardinality(debTimers) + Len(debRuns) = 1)
  /\ (debBurst /\ debCalls >= 1) ~> (~debBurst \/ Len(debRuns) = 1)

\* C13 witness: a burst of three calls, after which func has run once, with
\* the third call's arguments, and nothing is pending.
C13_Witness ==
  /\ debBurst
  /\ debCalls = 3
  /\ Len(debRuns) = 1
  /\ debRuns[1].args = 3
  /\ debTimers = {}

\* The query string contains 'particles'.
HasParticlesFlag ==
  \E i, j \in 1..Len(ptSearch) : SubSeq(ptSearch, i, j) = ParticlesFlag

\* The particle subsystem has left Uninitialized, or has drawn or asked
\* for a frame.
ParticlesStarted ==
  \/ ptScene
  \/ ptParticles # <<>>
  \/ ptSize # {}
  \/ ptFramesPending > 0
  \/ ptFrames > 0

\* C14: the particle subsystem is initialized, or has a frame drawn or
\* pending, only if the query string contains 'particles', the viewport
\* was wider than 768 when the constructor ran, and the 3D library is there.
C14_ParticlesOnlyWhenEnabled ==
  ParticlesStarted =>
    /\ HasParticlesFlag
    /\ ptBuiltAt # {}
    /\ \A width \in ptBuiltAt : width > 768
    /\ ptHasThree

\* C14 witness: initialized from ?x=1&particles at width 769, and the
\* viewport is no longer wide.
C14_Witness ==
  /\ ptScene
  /\ ptFrames > 0
  /\ Len(ptSearch) > Len(ParticlesFlag) + 1
  /\ ptBuiltAt = {769}
  /\ ptViewport.w = 768

\* C15 (the claim as stated): on every frame after initialization each
\* particle's position lies within [0, canvasWidth] x [0, canvasHeight].
C15_PositionsInsideCanvas ==
  ptFrames > 0 =>
    \A i \in 1..Len(ptParticles) : \A size \in ptSize :
      /\ 0 <= ptParticles[i][1] /\ ptParticles[i][1] <= size.w
      /\ 0 <= ptParticles[i][2] /\ ptParticles[i][2] <= size.h

\* C19: once the particle frame loop has started, exactly one frame
\* callback is pending in every state, and a frame leaves exactly one
\* pending.
C19_OneFramePending ==
  /\ [](ptFrames > 0 => ptFramesPending = 1)
  /\ [][ptFrames' # ptFrames => ptFramesPending' = 1]_vars

\* C19 witness: three frames drawn, mouse moved and window resized since
\* the loop started, one callback pending.
C19_Witness ==
  /\ ptFrames = 3
  /\ ptMouse # [x |-> 0, y |-> 0]
  /\ ptSize # {} /\ \A w \in ptBuiltAt : \A size \in ptSize : size.w # w
  /\ ptFramesPending = 1

\* C16: the header background opacity written by the scroll handler equals
\* 0.8 + 0.2 * min(scrollY / 100, 1) for the scroll offset the handler
\* read, and lies in [0.8, 1.0]  (in 1/1000: 800 + 2 * min(scrollY, 100),
\* in 800..1000).
C16_HeaderOpacityClamped ==
  \A a \in hdrAlpha : \A y \in hdrReadY :
    /\ a = 800 + 2 * (IF y < 100 THEN y ELSE 100)
    /\ 800 <= a /\ a <= 1000

\* C17: for every element watched by the scroll observer the
\* became-visible reaction runs at most once, and once it has run the
\* element is no longer observed.
C17_ReactionRunsOnce ==
  \A el \in Watched :
    /\ obsReactions[el] <= 1
    /\ obsReactions[el] >= 1 => el \notin obsObserved

\* C18: the count-up of a stat counter is started at most once, the
\* element is no longer observed once it is started, and an entry of the
\* started counter into the viewport leaves the count as it is.
C18_CountUpStartedOnce ==
  /\ [](/\ statStarts <= 1
        /\ statStarted => ~statObserved)
  /\ [][(statStarted /\ statEntries' # statEntries) =>
          UNCHANGED <<statTarget, statCurrent, statText, statFrame,
                      statStarts>>]_vars

\* C18 witness: the element has entered the viewport twice, the count-up
\* was started once and is still running after the second entry.
C18_Witness ==
  /\ statEntries = 2
  /\ statInView
  /\ statStarts = 1
  /\ statFrame

\* C20: when the menu toggle and the menu both exist and started with the
\* same 'active' state, the toggle is active if and only if the menu is.
C20_ToggleAndMenuAgree ==
  (hasToggle /\ hasMenu /\ menuStart.toggle = menuStart.menu) =>
    (toggleActive <=> menuActive)

\* C20 witness: both started inactive, and a toggle click has made both
\* active.
C20_Witness ==
  /\ hasToggle /\ hasMenu
  /\ ~menuStart.toggle /\ ~menuStart.menu
  /\ menuHist.op = "toggle"
  /\ toggleActive /\ menuActive

====
